---------------------------- MODULE Spec2Model ----------------------------
(***************************************************************************)
(* universal-lsif: a crawler drives a language server over a project and  *)
(* an indexer thread turns the crawler's Definition / Reference events    *)
(* into an LSIF dump.  The module models                                   *)
(*   - the tokenizer (crawler.rs get_words),                               *)
(*   - the LSP client (lsp/mod.rs) and the frames the server sends back,   *)
(*   - the crawler loop and its classification (crawler.rs traverse),      *)
(*   - the indexer and its cache (indexer.rs, lsif_data_cache.rs),         *)
(*   - the emitter (not part of the sources at hand; modelled from the     *)
(*     design document: fresh ids from a counter starting at 1, elements   *)
(*     appended in call order).                                            *)
(* Spec        is the whole pipeline: main, crawler, server, indexer.      *)
(* SpecIndexer is Indexer::index fed by an arbitrary sender on its two     *)
(*             channels.                                                   *)
(* SpecWords   is get_words applied to any short text.                    *)
(***************************************************************************)
EXTENDS Integers, Sequences, FiniteSets, TLC

(***************************************************************************)
(* Bounds of the model.                                                    *)
(***************************************************************************)
\* frames the reader thread may have queued for the client
MaxFrames == 1
\* events an arbitrary sender hands to the indexer (SpecIndexer)
MaxEvents == 3
\* characters of a text handed to the tokenizer (SpecWords)
MaxLen == 5

(***************************************************************************)
(* Options.                                                                *)
(***************************************************************************)
None == <<>>
Some(x) == <<x>>
IsSome(o) == o # None
Unwrap(o) == o[1]

SeqToSet(s) == {s[i] : i \in DOMAIN s}

RECURSIVE Concat(_)
Concat(ss) == IF ss = <<>> THEN <<>> ELSE Head(ss) \o Concat(Tail(ss))

\* every order in which a hash map may hand out the members of S
Perms(S) ==
    {s \in [1..Cardinality(S) -> S] : \A i, j \in 1..Cardinality(S) : i # j => s[i] # s[j]}

(***************************************************************************)
(* Text and the tokenizer.  A text is a sequence of characters; offsets    *)
(* reported by the regex engine are byte offsets.                          *)
(***************************************************************************)
WordChars == {"a", "b", "c", "e", "f", "l", "n", "t", "u", "v", "_", "1", "E"}
\* "E" stands for a non-ASCII letter: \w matches it and it takes two bytes
ByteLen(ch) == IF ch = "E" THEN 2 ELSE 1
IsWord(ch) == ch \in WordChars

RECURSIVE SplitLines(_, _)
\* text.split('\n'): acc is the line being collected
SplitLines(text, acc) ==
    IF text = <<>> THEN <<acc>>
    ELSE IF Head(text) = "\n" THEN <<acc>> \o SplitLines(Tail(text), <<>>)
    ELSE SplitLines(Tail(text), Append(acc, Head(text)))

RECURSIVE WordRun(_, _)
\* \w+ : the first index at or after i that holds no word character
WordRun(line, i) ==
    IF i <= Len(line) /\ IsWord(line[i]) THEN WordRun(line, i + 1) ELSE i

RECURSIVE AposGroups(_, _)
\* (?:'\w+)* , greedy: j is the index just past what matched so far
AposGroups(line, j) ==
    IF j + 1 <= Len(line) /\ line[j] = "'" /\ IsWord(line[j + 1])
    THEN AposGroups(line, WordRun(line, j + 1))
    ELSE j

\* a match of \w+ alone
MatchEndWordOnly(line, i) == WordRun(line, i)
MatchEnd(line, i) == AposGroups(line, WordRun(line, i))

RECURSIVE ByteOffset(_, _)
\* byte offset of index i (1-based) of the line
ByteOffset(line, i) ==
    IF i <= 1 THEN 0 ELSE ByteOffset(line, i - 1) + ByteLen(line[i - 1])

Position(l, c) == [line |-> l, character |-> c]
LspRange(s, e) == [start |-> s, end |-> e]

RECURSIVE FindIter(_, _, _)
\* RE.find_iter(line): leftmost, non-overlapping matches from index i on
FindIter(line, idx, i) ==
    IF i > Len(line) THEN <<>>
    ELSE IF IsWord(line[i])
         THEN LET e == MatchEnd(line, i)
              IN  << [word  |-> SubSeq(line, i, e - 1),
                      range |-> LspRange(Position(idx, ByteOffset(line, i)),
                                         Position(idx, ByteOffset(line, e)))] >>
                  \o FindIter(line, idx, e)
         ELSE FindIter(line, idx, i + 1)

get_words(text) ==
    LET lines == SplitLines(text, <<>>)
    IN  Concat([k \in 1..Len(lines) |-> FindIter(lines[k], k - 1, 1)])

(***************************************************************************)
(* Locations, ranges and events (crawler.rs).                              *)
(***************************************************************************)
\* a file URI is the sequence of its path components
Location(file, range) == [file_path |-> file, range |-> range]

\* impl Hash for Range: the start only
RangeHash(r) == <<r.start.line, r.start.character>>
\* what equality by start alone would be
RangeEqStartOnly(a, b) == a.start = b.start
\* #[derive(Eq, PartialEq)] on Range: the whole lsp_range
RangeEq(a, b) == a.start = b.start /\ a.end = b.end

\* #[derive(Eq, PartialEq, Hash)] on Location
LocationHash(l) == <<l.file_path, RangeHash(l.range)>>
LocationEq(a, b) == a.file_path = b.file_path /\ RangeEq(a.range, b.range)

\* Location::file_name: the final component of the path
file_name(l) == l.file_path[Len(l.file_path)]

Definition(loc, name, comment) ==
    [location |-> loc, node_name |-> name, comment |-> comment]
Reference(loc, name, def) ==
    [location |-> loc, node_name |-> name, def |-> def]

(***************************************************************************)
(* std HashMap keyed by Range / Location: a key is found when its hash and *)
(* the key itself agree; insert on a present key keeps the old key and     *)
(* replaces the value.                                                     *)
(***************************************************************************)
EmptyMap == <<>>

RangeKeyMatch(a, b) == RangeHash(a) = RangeHash(b) /\ RangeEq(a, b)
LocationKeyMatch(a, b) == LocationHash(a) = LocationHash(b) /\ LocationEq(a, b)

RangeMapGet(m, k) ==
    IF \E x \in DOMAIN m : RangeKeyMatch(x, k)
    THEN Some(m[CHOOSE x \in DOMAIN m : RangeKeyMatch(x, k)])
    ELSE None

RangeMapInsert(m, k, v) ==
    IF \E x \in DOMAIN m : RangeKeyMatch(x, k)
    THEN [x \in DOMAIN m |-> IF RangeKeyMatch(x, k) THEN v ELSE m[x]]
    ELSE [x \in DOMAIN m \cup {k} |-> IF x = k THEN v ELSE m[x]]

LocationMapHas(m, k) == \E x \in DOMAIN m : LocationKeyMatch(x, k)
LocationMapKey(m, k) == CHOOSE x \in DOMAIN m : LocationKeyMatch(x, k)

LocationMapGet(m, k) ==
    IF LocationMapHas(m, k) THEN Some(m[LocationMapKey(m, k)]) ELSE None

LocationMapInsert(m, k, v) ==
    IF LocationMapHas(m, k)
    THEN [x \in DOMAIN m |-> IF LocationKeyMatch(x, k) THEN v ELSE m[x]]
    ELSE [x \in DOMAIN m \cup {k} |-> IF x = k THEN v ELSE m[x]]

(***************************************************************************)
(* LsifDataCache (lsif_data_cache.rs).                                     *)
(***************************************************************************)
DocumentInfo(id) ==
    [id |-> id, definition_range_ids |-> <<>>, reference_range_ids |-> <<>>]

DefinitionInfo(document_id, range_id, result_set_id) ==
    [document_id |-> document_id, range_id |-> range_id,
     result_set_id |-> result_set_id, reference_range_ids |-> EmptyMap]

LsifDataCache == [documents |-> EmptyMap, ranges |-> EmptyMap, def_infos |-> EmptyMap]

\* a cache_document that makes no entry in `ranges`
cache_document_without_ranges(cache, filename, document_id) ==
    [cache EXCEPT
       !.documents = [f \in DOMAIN cache.documents \cup {filename} |->
                        IF f = filename THEN DocumentInfo(document_id)
                        ELSE cache.documents[f]]]

cache_document(cache, filename, document_id) ==
    [cache EXCEPT
       !.documents = [f \in DOMAIN cache.documents \cup {filename} |->
                        IF f = filename THEN DocumentInfo(document_id)
                        ELSE cache.documents[f]],
       !.ranges = [f \in DOMAIN cache.ranges \cup {filename} |->
                        IF f = filename THEN EmptyMap ELSE cache.ranges[f]]]

get_document_id(cache, filename) ==
    IF filename \in DOMAIN cache.documents
    THEN Some(cache.documents[filename].id) ELSE None

get_range_id(cache, filename, range) ==
    IF filename \in DOMAIN cache.ranges
    THEN RangeMapGet(cache.ranges[filename], range) ELSE None

get_definition_info(cache, location) == LocationMapGet(cache.def_infos, location)

\* the unwraps of cache_definition
cache_definition_panics(cache, def) ==
    \/ def.location.file_path \notin DOMAIN cache.ranges
    \/ def.location.file_path \notin DOMAIN cache.documents

\* a cache_definition that records the range but no DefinitionInfo
cache_definition_without_info(cache, def, document_id, range_id, result_set_id) ==
    LET f == def.location.file_path
    IN  [cache EXCEPT
           !.ranges[f] = RangeMapInsert(@, def.location.range, range_id),
           !.documents[f].definition_range_ids = Append(@, range_id)]

cache_definition(cache, def, document_id, range_id, result_set_id) ==
    LET f == def.location.file_path
    IN  [cache EXCEPT
           !.ranges[f] = RangeMapInsert(@, def.location.range, range_id),
           !.documents[f].definition_range_ids = Append(@, range_id),
           !.def_infos = LocationMapInsert(@, def.location,
                             DefinitionInfo(document_id, range_id, result_set_id))]

\* the unwraps of cache_reference
cache_reference_panics(cache, def, r) ==
    \/ def.location.file_path \notin DOMAIN cache.documents
    \/ ~LocationMapHas(cache.def_infos, def.location)
    \/ r.location.file_path \notin DOMAIN cache.documents

\* the document whose id keys the bucket of the definition's reference ranges
reference_bucket_file(def, r) == def.location.file_path

\* a cache_reference that also files the range under the definitions
cache_reference_into_definitions(cache, def, r, range_id) ==
    [cache EXCEPT
       !.documents[r.location.file_path].reference_range_ids = Append(@, range_id),
       !.documents[r.location.file_path].definition_range_ids = Append(@, range_id)]

cache_reference(cache, def, r, range_id) ==
    LET id == cache.documents[reference_bucket_file(def, r)].id
        key == LocationMapKey(cache.def_infos, def.location)
        old == cache.def_infos[key].reference_range_ids
        new == [d \in DOMAIN old \cup {id} |->
                   IF d = id
                   THEN Append(IF id \in DOMAIN old THEN old[id] ELSE <<>>, range_id)
                   ELSE old[d]]
    IN  [cache EXCEPT
           !.def_infos[key].reference_range_ids = new,
           !.documents[r.location.file_path].reference_range_ids = Append(@, range_id)]

\* a cache_reference_range that forgets the range
cache_reference_range_forgets(cache, r, range_id) == cache

cache_reference_range(cache, r, range_id) ==
    IF r.location.file_path \notin DOMAIN cache.ranges THEN cache
    ELSE [cache EXCEPT
            !.ranges[r.location.file_path] = RangeMapInsert(@, r.location.range, range_id)]

(***************************************************************************)
(* Emitter and the LSIF elements.  The emitter and the protocol types are  *)
(* not among the sources at hand; they follow the design document: each    *)
(* vertex or edge takes the next id of a counter that starts at 1 and is   *)
(* appended to the output in call order.                                   *)
(***************************************************************************)
NoId == 0

Element(type, label) ==
    [id |-> NoId, type |-> type, label |-> label, outV |-> NoId, inV |-> NoId,
     inVs |-> <<>>, document |-> NoId, property |-> "", data |-> None]

Vertex(label, data) == [Element("vertex", label) EXCEPT !.data = data]
\* edge!(Label, out -> in)
Edge1(label, outV, inV) == [Element("edge", label) EXCEPT !.outV = outV, !.inV = inV]
\* Edge::item / Edge::def_item / Edge::ref_item
EdgeItem(outV, inVs, document, property) ==
    [Element("edge", "item") EXCEPT
       !.outV = outV, !.inVs = inVs, !.document = document, !.property = property]
\* Edge::contains
EdgeContains(outV, inVs) == [Element("edge", "contains") EXCEPT !.outV = outV, !.inVs = inVs]

FileEmitter == [counter |-> 1, out |-> <<>>, ended |-> FALSE]

\* the id the next emit_vertex / emit_edge call returns
NextId(S) == S.emitter.counter

Emit(S, element) ==
    [S EXCEPT !.emitter.out = Append(@, [element EXCEPT !.id = S.emitter.counter]),
              !.emitter.counter = @ + 1]

\* Emitter::end: flush and signal
EmitterEnd(S) == [S EXCEPT !.emitter.ended = TRUE]

(***************************************************************************)
(* Indexer (indexer.rs).  S is the indexer: its emitter, its cache, its    *)
(* project id, whether it has panicked, and a log of the Range vertices    *)
(* it emitted (what each was emitted for), kept for the properties.        *)
(***************************************************************************)
NewIndexer ==
    [emitter |-> FileEmitter, cache |-> LsifDataCache, project_id |-> 0,
     panicked |-> FALSE, range_log |-> <<>>]

LogRange(S, id, location, for) ==
    [S EXCEPT !.range_log = Append(@, [id |-> id, location |-> location, for |-> for])]

\* a start that emits the metaData vertex and does not keep its id
emit_metadata_without_project_id(S, root) == Emit(S, Vertex("metaData", root))

emit_metadata_and_project_vertex(S, root) ==
    [Emit(S, Vertex("metaData", root)) EXCEPT !.project_id = NextId(S)]

RECURSIVE emit_documents(_, _)
\* one Document vertex per path, cached by its URI
emit_documents(S, file_paths) ==
    IF file_paths = <<>> THEN S
    ELSE LET S1 == Emit(S, Vertex("document", Head(file_paths)))
         IN  emit_documents(
                 [S1 EXCEPT !.cache = cache_document(@, Head(file_paths), NextId(S))],
                 Tail(file_paths))

index_definition(S, def) ==
    LET doc == get_document_id(S.cache, def.location.file_path)
    IN  IF doc = None THEN S
        ELSE
        LET document_id == Unwrap(doc)
            \* 1. Emit Vertices
            range_id == NextId(S)
            S1 == LogRange(Emit(S, Vertex("range", def.location.range)),
                           range_id, def.location, "definition")
            result_set_id == NextId(S1)
            S2 == Emit(S1, Vertex("resultSet", None))
            def_result_id == NextId(S2)
            S3 == Emit(S2, Vertex("definitionResult", None))
            hover_result_id == IF IsSome(def.comment) THEN Some(NextId(S3)) ELSE None
            S4 == IF IsSome(def.comment)
                  THEN Emit(S3, Vertex("hoverResult", def.comment)) ELSE S3
            moniker_id == NextId(S4)
            S5 == Emit(S4, Vertex("moniker", <<file_name(def.location), def.node_name>>))
            \* 2. Connect the emitted vertices
            S6 == Emit(S5, Edge1("next", range_id, result_set_id))
            S7 == Emit(S6, Edge1("textDocument/definition", result_set_id, def_result_id))
            S8 == Emit(S7, EdgeItem(def_result_id, <<range_id>>, document_id, ""))
            S9 == Emit(S8, Edge1("moniker", result_set_id, moniker_id))
            S10 == IF IsSome(hover_result_id)
                   THEN Emit(S9, Edge1("textDocument/hover", result_set_id,
                                       Unwrap(hover_result_id)))
                   ELSE S9
        IN  \* 3. Cache the result
            IF cache_definition_panics(S10.cache, def)
            THEN [S10 EXCEPT !.panicked = TRUE]
            ELSE [S10 EXCEPT !.cache = cache_definition(@, def, document_id,
                                                        range_id, result_set_id)]

\* an ensure_range_for that hands out a fresh id without looking at the cache
ensure_range_id_fresh(S, r) == NextId(S)

\* the id ensure_range_for returns
ensure_range_id(S, r) ==
    LET cached == get_range_id(S.cache, r.location.file_path, r.location.range)
    IN  IF IsSome(cached) THEN Unwrap(cached) ELSE NextId(S)

\* the indexer after ensure_range_for
ensure_range_for(S, r) ==
    LET cached == get_range_id(S.cache, r.location.file_path, r.location.range)
    IN  IF IsSome(cached) THEN S
        ELSE LET range_id == NextId(S)
                 S1 == LogRange(Emit(S, Vertex("range", r.location.range)),
                                range_id, r.location, "reference")
             IN  [S1 EXCEPT !.cache = cache_reference_range(@, r, range_id)]

index_reference_to_definition(S, def, r) ==
    LET \* 1. Emit/Get vertices(s)
        range_id == ensure_range_id(S, r)
        S1 == ensure_range_for(S, r)
        \* 2. Connect the emitted vertices
        info == get_definition_info(S1.cache, def.location)
    IN  IF info = None THEN S1
        ELSE LET S2 == Emit(S1, Edge1("next", range_id, Unwrap(info).result_set_id))
             IN  \* 3. Cache the result
                 IF cache_reference_panics(S2.cache, def, r)
                 THEN [S2 EXCEPT !.panicked = TRUE]
                 ELSE [S2 EXCEPT !.cache = cache_reference(@, def, r, range_id)]

index_reference(S, r) == index_reference_to_definition(S, r.def, r)

RECURSIVE emit_ref_items(_, _, _, _)
\* one `references` item edge per (document_id, range_ids) bucket
emit_ref_items(S, ref_result_id, buckets, order) ==
    IF order = <<>> THEN S
    ELSE emit_ref_items(
             Emit(S, EdgeItem(ref_result_id, buckets[Head(order)], Head(order), "references")),
             ref_result_id, buckets, Tail(order))

RECURSIVE link_items_to_definitions(_, _, _)
\* def_order: the order in which the def_infos map hands out its entries;
\* bucket_order: the order of the document ids in a reference_range_ids map
link_items_to_definitions(S, def_order, bucket_order) ==
    IF def_order = <<>> THEN S
    ELSE LET d == S.cache.def_infos[Head(def_order)]
             ref_result_id == NextId(S)
             S1 == Emit(S, Vertex("referenceResult", None))
             S2 == Emit(S1, Edge1("textDocument/references", d.result_set_id, ref_result_id))
             S3 == Emit(S2, EdgeItem(ref_result_id, <<d.range_id>>, d.document_id,
                                     "definitions"))
             S4 == emit_ref_items(S3, ref_result_id, d.reference_range_ids,
                       SelectSeq(bucket_order, LAMBDA id : id \in DOMAIN d.reference_range_ids))
         IN  link_items_to_definitions(S4, Tail(def_order), bucket_order)

emit_contains_for_project(S, doc_order) ==
    Emit(S, EdgeContains(S.project_id,
                         [i \in 1..Len(doc_order) |-> S.cache.documents[doc_order[i]].id]))

\* the ranges of one document's contains edge
all_range_ids(d) == d.reference_range_ids \o d.definition_range_ids

RECURSIVE emit_document_contains(_, _)
emit_document_contains(S, docs) ==
    IF docs = <<>> THEN S
    ELSE LET d == S.cache.documents[Head(docs)]
         IN  emit_document_contains(
                 IF all_range_ids(d) # <<>>
                 THEN Emit(S, EdgeContains(d.id, all_range_ids(d))) ELSE S,
                 Tail(docs))

\* doc_order: the order in which the documents map hands out its entries
emit_contains(S, doc_order) ==
    emit_contains_for_project(emit_document_contains(S, doc_order), doc_order)

(***************************************************************************)
(* The project on disk and the answers a server may give.                  *)
(***************************************************************************)
Root == <<"proj">>
F1 == <<"proj", "f1">>
F2 == <<"proj", "f2">>
F3 == <<"proj", "f3">>
\* a file outside the project root
Ext == <<"lib", "x">>

FileText(p) ==
    IF p = F1 THEN <<"f", "n", " ", "a", "\n", "b">>
    ELSE IF p = F2 THEN <<"a">>
    ELSE <<"b", " ", "a">>

\* config.keywords
Keywords == {<<"f", "n">>}

\* Url::from_file_path(p).to_string()
FromFilePath(p) == <<"file:">> \o p

\* the walks the file system may give to paths()
PathChoices == {<<>>, <<F1>>, <<F2, F3>>}

TokenLocations(p) ==
    {Location(FromFilePath(p), w.range) : w \in SeqToSet(get_words(FileText(p)))}

\* the last token of a file, with a range that ends one character further on
WideLocation(p) ==
    LET ws == get_words(FileText(p))
        r == ws[Len(ws)].range
    IN  Location(FromFilePath(p),
                 LspRange(r.start, Position(r.end.line, r.end.character + 1)))

ExtLocation == Location(FromFilePath(Ext), LspRange(Position(0, 0), Position(0, 1)))

\* the locations a server answers with, for a walk ps
AnswerLocations(ps) ==
    UNION {TokenLocations(ps[i]) : i \in DOMAIN ps}
        \cup (IF ps = <<>> THEN {} ELSE {WideLocation(ps[Len(ps)])})
        \cup {ExtLocation}

\* a second entry for an array answer, different from the first
SecondEntry(ps, l) ==
    IF l = ExtLocation THEN WideLocation(ps[Len(ps)]) ELSE ExtLocation

\* the result of a textDocument/definition response, as JSON
Answers(ps) ==
    {[kind |-> "null", locs |-> <<>>], [kind |-> "array", locs |-> <<>>]}
    \cup {[kind |-> "link", locs |-> <<l>>] : l \in AnswerLocations(ps)}
    \cup {[kind |-> "scalar", locs |-> <<l>>] : l \in AnswerLocations(ps)}
    \cup {[kind |-> "array", locs |-> <<l>>] : l \in AnswerLocations(ps)}
    \cup {[kind |-> "array", locs |-> <<l, SecondEntry(ps, l)>>] : l \in AnswerLocations(ps)}

(***************************************************************************)
(* State.                                                                  *)
(***************************************************************************)
VARIABLES
    paths,        \* what paths() returns: the files of the language, in walk order
    mpc,          \* where the main thread is (main, spawn_server, traverse)
    file_idx,     \* traverse: index in paths of the file at hand
    text,         \* traverse: the text of the file at hand
    words,        \* traverse: get_words of the file at hand
    word_idx,     \* traverse: index in words of the identifier at hand
    next_id,      \* LSClient.next_id
    sent,         \* what the client wrote to the server's stdin, in order
    message_chan, \* frames the reader thread queued for the client
    rpc,          \* where the lsp-stdout-looper thread is
    responded,    \* the responses an in-order server has written (SpecInOrder)
    last_call,    \* the outcome of the await_response that returned last
    failed,       \* the identifiers whose query returned Err, and why
    def_sent,     \* everything sent on the definition channel, in order
    ref_sent,     \* everything sent on the reference channel, in order
    def_tx,       \* whether the sender of the definition channel is alive
    ref_tx,       \* whether the sender of the reference channel is alive
    def_read,     \* how many definitions the indexer received
    ref_read,     \* how many references the indexer received
    ipc,          \* where the indexer thread is
    idx,          \* the indexer: emitter, cache, project id
    flush_signal  \* whether the emitter signalled the end of the flush

crawler_vars ==
    <<mpc, file_idx, text, words, word_idx, next_id, sent, message_chan, rpc, last_call, failed>>
channel_vars == <<def_sent, ref_sent, def_tx, ref_tx>>
indexer_vars == <<def_read, ref_read, ipc, idx, flush_signal>>
vars == <<paths, responded, crawler_vars, channel_vars, indexer_vars>>

(***************************************************************************)
(* LSP client (lsp/mod.rs).                                                *)
(***************************************************************************)
Request(method, id, uri, position) ==
    [kind |-> "request", method |-> method, id |-> id, uri |-> uri, position |-> position]
Notification(method, uri) ==
    [kind |-> "notification", method |-> method, id |-> NoId, uri |-> uri, position |-> None]

Frame(kind, id) == [kind |-> kind, id |-> id]

\* what the server may write while the client has sent next_id requests
ServerFrames ==
    {Frame("request", 0), Frame("notification", 0), Frame("empty", 0)}
    \cup {Frame(k, i) : k \in {"success", "error"}, i \in 0..(next_id - 1)}

\* handle_message: None for a request or a notification, Some(id, kind) for a
\* response, and a panic for a body that is no JSON-RPC message
handle_message_panics(frame) == frame.kind = "empty"
\* a handle_message that takes a request of the server for a response
handle_message_takes_requests(frame) ==
    IF frame.kind = "notification" THEN None
    ELSE Some(<<frame.id, frame.kind>>)
handle_message(frame) ==
    IF frame.kind \in {"request", "notification"} THEN None
    ELSE Some(<<frame.id, frame.kind>>)

\* await_response returns on this frame
await_response_returns(frame, pending) == IsSome(handle_message(frame))

\* an await_response that takes an error response for a result
response_is_ok_always(frame) == TRUE
\* res.with_context(..)? : Ok for a success response, Err for an error response
response_is_ok(frame) == frame.kind = "success"

(***************************************************************************)
(* Initial states.                                                         *)
(***************************************************************************)
InitCommon ==
    /\ responded = 0
    /\ file_idx = 1
    /\ words = <<>>
    /\ word_idx = 1
    /\ next_id = 0
    /\ sent = <<>>
    /\ message_chan = <<>>
    /\ last_call = None
    /\ failed = {}
    /\ def_sent = <<>>
    /\ ref_sent = <<>>
    /\ def_tx = TRUE
    /\ ref_tx = TRUE
    /\ def_read = 0
    /\ ref_read = 0
    /\ ipc = "unspawned"
    /\ idx = NewIndexer
    /\ flush_signal = FALSE

\* the process as main() finds it
Init ==
    /\ paths \in PathChoices
    /\ text = <<>>
    /\ mpc = "spawn"
    /\ rpc = "unspawned"
    /\ InitCommon

(***************************************************************************)
(* The lsp-stdout-looper thread (lsp/mod.rs, spawn_server) together with   *)
(* the server that writes to its pipe.                                     *)
(***************************************************************************)
\* the client, and with it the receiving end of the frame channel, lives
\* until spawn_server fails or traverse returns
ReceiverAlive == mpc \notin {"spawn_failed", "init_failed", "returned", "exited", "panicked"}

\* the server closes its stdout (it exits, or crashes): the pipe is at end of file
ServerClosesStdout ==
    /\ rpc = "running"
    /\ rpc' = "eof"
    /\ UNCHANGED <<paths, responded, mpc, file_idx, text, words, word_idx, next_id, sent,
                   message_chan, last_call, failed, channel_vars, indexer_vars>>

\* what read_message returns: a frame the server wrote or, at end of file, an
\* empty body (read_line reads nothing, the length defaults to 0)
read_message ==
    IF rpc = "eof" THEN {Frame("empty", 0)} ELSE ServerFrames

\* read_message returns a frame and the thread forwards it
ReaderForward ==
    /\ rpc \in {"running", "eof"}
    /\ \E frame \in read_message :
         IF ReceiverAlive
         THEN /\ Len(message_chan) < MaxFrames
              /\ message_chan' = Append(message_chan, frame)
              /\ rpc' = rpc
         ELSE \* send fails: the receiver was dropped, end the loop
              /\ rpc' = "exited"
              /\ message_chan' = message_chan
    /\ UNCHANGED <<paths, responded, mpc, file_idx, text, words, word_idx, next_id, sent,
                   last_call, failed, channel_vars, indexer_vars>>

\* read_message returns an error (unknown header, short body, bad UTF-8)
ReaderPanic ==
    /\ rpc = "running"
    /\ rpc' = "panicked"
    /\ UNCHANGED <<paths, responded, mpc, file_idx, text, words, word_idx, next_id, sent,
                   message_chan, last_call, failed, channel_vars, indexer_vars>>

\* what a server that answers in order may write: a request of its own, a
\* notification, or the response (success or error) to the oldest request it
\* has not answered, carrying the id of that request
InOrderFrames ==
    LET requests == SelectSeq(sent, LAMBDA m : m.kind = "request")
    IN  {Frame("request", 0), Frame("notification", 0)}
        \cup IF responded < Len(requests)
             THEN {Frame(k, requests[responded + 1].id) : k \in {"success", "error"}}
             ELSE {}

\* the reader thread on the stdout of a server that answers in order:
\* read_message returns what the server wrote and the thread forwards it
ReaderForwardInOrder ==
    /\ rpc = "running"
    /\ \E frame \in InOrderFrames :
         /\ responded' = IF frame.kind \in {"success", "error"}
                         THEN responded + 1 ELSE responded
         /\ IF ReceiverAlive
            THEN /\ Len(message_chan) < MaxFrames
                 /\ message_chan' = Append(message_chan, frame)
                 /\ rpc' = rpc
            ELSE \* send fails: the receiver was dropped, end the loop
                 /\ rpc' = "exited"
                 /\ message_chan' = message_chan
    /\ UNCHANGED <<paths, mpc, file_idx, text, words, word_idx, next_id, sent,
                   last_call, failed, channel_vars, indexer_vars>>

\* Receiver::recv fails once the queue is empty and the sender is gone
RecvDisconnected == message_chan = <<>> /\ rpc \in {"exited", "panicked"}

(***************************************************************************)
(* main and LSClient::spawn_server.                                        *)
(***************************************************************************)
\* spawn the process and the reader, send `initialize`; or Command::spawn fails
SpawnServer ==
    /\ mpc = "spawn"
    /\ \/ /\ rpc' = "running"
          /\ sent' = Append(sent, Request("initialize", next_id, FromFilePath(Root), None))
          /\ next_id' = next_id + 1
          /\ mpc' = "await_init"
       \/ /\ mpc' = "spawn_failed"
          /\ UNCHANGED <<rpc, sent, next_id>>
    /\ UNCHANGED <<paths, responded, file_idx, text, words, word_idx, message_chan, last_call,
                   failed, channel_vars, indexer_vars>>

CallOutcome(frame, result, file, word, range) ==
    [request_id |-> next_id - 1, frame_id |-> frame.id, kind |-> frame.kind,
     result |-> result, file |-> file, word |-> word, range |-> range,
     defs_before |-> Len(def_sent), refs_before |-> Len(ref_sent)]

\* await_response::<InitializeResult>, then the `initialized` notification
AwaitInitialize ==
    /\ mpc = "await_init"
    /\ \/ /\ message_chan # <<>>
          /\ message_chan' = Tail(message_chan)
          /\ LET frame == Head(message_chan)
             IN  IF handle_message_panics(frame)
                 THEN mpc' = "panicked" /\ UNCHANGED <<sent, last_call, failed>>
                 ELSE IF ~await_response_returns(frame, next_id - 1)
                 THEN UNCHANGED <<mpc, sent, last_call, failed>>
                 ELSE /\ last_call' = Some(CallOutcome(frame, None, Root, <<>>, None))
                      /\ failed' = failed
                      /\ \/ /\ response_is_ok(frame)
                            /\ sent' = Append(sent, Notification("initialized", None))
                            /\ mpc' = "initialized"
                         \/ \* an error response, or a result that is no InitializeResult
                            /\ mpc' = "init_failed"
                            /\ sent' = sent
       \/ /\ RecvDisconnected
          /\ mpc' = "init_failed"
          /\ UNCHANGED <<message_chan, sent, last_call, failed>>
    /\ UNCHANGED <<paths, responded, file_idx, text, words, word_idx, next_id, rpc, channel_vars,
                   indexer_vars>>

(***************************************************************************)
(* crawler.rs traverse.                                                    *)
(***************************************************************************)
\* after the sleep: the channels, the emitter, the indexer thread
TraverseStart ==
    /\ mpc = "initialized"
    /\ mpc' = "file"
    /\ ipc' = "start"
    /\ last_call' = None
    /\ UNCHANGED <<paths, responded, file_idx, text, words, word_idx, next_id, sent, message_chan,
                   rpc, failed, channel_vars, def_read, ref_read, idx, flush_signal>>

\* a set_document that opens the project root whatever the path
set_document_of_root(p) == Notification("textDocument/didOpen", FromFilePath(Root))
\* LSClient::set_document: the didOpen notification for the file
set_document(p) == Notification("textDocument/didOpen", FromFilePath(p))

\* the next file of the walk: read it, didOpen, tokenize
OpenFile ==
    /\ mpc = "file"
    /\ file_idx <= Len(paths)
    /\ sent' = Append(sent, set_document(paths[file_idx]))
    /\ text' = FileText(paths[file_idx])
    /\ words' = get_words(text')
    /\ word_idx' = 1
    /\ mpc' = "word"
    /\ last_call' = None
    /\ UNCHANGED <<paths, responded, file_idx, next_id, message_chan, rpc, failed, channel_vars,
                   indexer_vars>>

\* a filter that lets every identifier through
is_keyword_never(word) == FALSE
\* config.keywords.get(&word).is_some()
is_keyword(word) == word \in Keywords

\* the closure of try_for_each up to the request of get_definition
NextWord ==
    /\ mpc = "word"
    /\ last_call' = None
    /\ IF word_idx > Len(words)
       THEN \* pb.inc(1), next file
            /\ file_idx' = file_idx + 1
            /\ mpc' = "file"
            /\ UNCHANGED <<word_idx, next_id, sent>>
       ELSE IF is_keyword(words[word_idx].word)
       THEN /\ word_idx' = word_idx + 1
            /\ UNCHANGED <<mpc, file_idx, next_id, sent>>
       ELSE /\ sent' = Append(sent, Request("textDocument/definition", next_id,
                                            FromFilePath(paths[file_idx]),
                                            words[word_idx].range.start))
            /\ next_id' = next_id + 1
            /\ mpc' = "await_def"
            /\ UNCHANGED <<file_idx, word_idx>>
    /\ UNCHANGED <<paths, responded, text, words, message_chan, rpc, failed, channel_vars, indexer_vars>>

\* serde_json::from_value::<GotoDefinitionResponse> fails on null
deserializes(answer) == answer.kind # "null"

\* the match on GotoDefinitionResponse
def_location(answer) ==
    IF answer.kind = "scalar" THEN Some(answer.locs[1])
    ELSE IF answer.kind = "array" /\ answer.locs # <<>> THEN Some(answer.locs[1])
    ELSE None

\* it defines itself, so it's a declaration
is_declaration_by_start_only(p, range, loc) == loc.range.start = range.start
is_declaration(p, range, loc) ==
    loc.range.start = range.start /\ FromFilePath(p) = loc.file_path

DefinitionEvent(p, word, range, loc) ==
    Definition(Location(loc.file_path, range), word, None)
ReferenceEvent(p, word, range, loc) ==
    Reference(Location(FromFilePath(p), range), word,
              Definition(Location(loc.file_path, loc.range), word, None))

\* an Err arm that hands the error on (get_definition(..)?, unwrap in main)
on_query_error_propagates == "panicked"
\* Err(_err) => {}: the closure returns Ok(()) and try_for_each goes on
on_query_error == "word"

\* Err(_err) of get_definition: the identifier of file p at range, and whether
\* the server answered with an error or the frame channel was disconnected
Failure(p, range, cause) ==
    [location |-> Location(FromFilePath(p), range), cause |-> cause]

\* the rest of the closure: await_response and the classification
AwaitDefinition ==
    /\ mpc = "await_def"
    /\ LET p == paths[file_idx]
           w == words[word_idx]
       IN
       \/ /\ message_chan # <<>>
          /\ message_chan' = Tail(message_chan)
          /\ LET frame == Head(message_chan)
             IN  IF handle_message_panics(frame)
                 THEN mpc' = "panicked" /\ UNCHANGED <<word_idx, last_call, failed, def_sent, ref_sent>>
                 ELSE IF ~await_response_returns(frame, next_id - 1)
                 THEN UNCHANGED <<mpc, word_idx, last_call, failed, def_sent, ref_sent>>
                 ELSE /\ mpc' = IF frame.kind = "error" THEN on_query_error ELSE "word"
                      /\ word_idx' = word_idx + 1
                      /\ \/ \* Err(_err): a server error
                            /\ frame.kind = "error"
                            /\ last_call' = Some(CallOutcome(frame, None, p, w.word, w.range))
                            /\ failed' = failed \cup {Failure(p, w.range, "error")}
                            /\ UNCHANGED <<def_sent, ref_sent>>
                         \/ /\ frame.kind = "success"
                            /\ failed' = failed
                            /\ \E answer \in Answers(paths) :
                                 /\ last_call' =
                                      Some(CallOutcome(frame, Some(answer), p, w.word, w.range))
                                 /\ IF ~deserializes(answer) \/ def_location(answer) = None
                                    THEN UNCHANGED <<def_sent, ref_sent>>
                                    ELSE LET loc == Unwrap(def_location(answer))
                                         IN  IF is_declaration(p, w.range, loc)
                                             THEN /\ def_sent' = Append(def_sent,
                                                        DefinitionEvent(p, w.word, w.range, loc))
                                                  /\ ref_sent' = ref_sent
                                             ELSE /\ ref_sent' = Append(ref_sent,
                                                        ReferenceEvent(p, w.word, w.range, loc))
                                                  /\ def_sent' = def_sent
       \/ \* recv fails: Err(_err), the identifier is dropped
          /\ RecvDisconnected
          /\ mpc' = on_query_error
          /\ word_idx' = word_idx + 1
          /\ last_call' = None
          /\ failed' = failed \cup {Failure(p, w.range, "disconnected")}
          /\ UNCHANGED <<message_chan, def_sent, ref_sent>>
    /\ UNCHANGED <<paths, responded, file_idx, text, words, next_id, sent, rpc, def_tx, ref_tx,
                   indexer_vars>>

\* a shutdown that joins the indexer with both channels still open
JoinBeforeClose ==
    /\ mpc = "file"
    /\ file_idx > Len(paths)
    /\ mpc' = "join"
    /\ UNCHANGED <<paths, responded, file_idx, text, words, word_idx, next_id, sent, message_chan,
                   rpc, last_call, failed, channel_vars, indexer_vars>>

\* a shutdown that drops def_tx and keeps ref_tx
CloseChannelsOfDefinitions ==
    /\ mpc = "file"
    /\ file_idx > Len(paths)
    /\ def_tx' = FALSE
    /\ ref_tx' = ref_tx
    /\ mpc' = "join"
    /\ UNCHANGED <<paths, responded, file_idx, text, words, word_idx, next_id, sent, message_chan,
                   rpc, last_call, failed, def_sent, ref_sent, indexer_vars>>

\* the walk is over: drop(def_tx); drop(ref_tx)
CloseChannels ==
    /\ mpc = "file"
    /\ file_idx > Len(paths)
    /\ def_tx' = FALSE
    /\ ref_tx' = FALSE
    /\ mpc' = "join"
    /\ UNCHANGED <<paths, responded, file_idx, text, words, word_idx, next_id, sent, message_chan,
                   rpc, last_call, failed, def_sent, ref_sent, indexer_vars>>

\* indexer_proc.join()
JoinIndexer ==
    /\ mpc = "join"
    /\ ipc \in {"done", "panicked"}
    /\ mpc' = IF ipc = "done" THEN "flush_wait" ELSE "panicked"
    /\ UNCHANGED <<paths, responded, file_idx, text, words, word_idx, next_id, sent, message_chan,
                   rpc, last_call, failed, channel_vars, indexer_vars>>

\* flush_signal.recv(), then traverse returns and the client is dropped
RecvFlush ==
    /\ mpc = "flush_wait"
    /\ flush_signal
    /\ mpc' = "returned"
    /\ UNCHANGED <<paths, responded, file_idx, text, words, word_idx, next_id, sent, message_chan,
                   rpc, last_call, failed, channel_vars, indexer_vars>>

\* lsp_proc.join() in main
JoinReader ==
    /\ mpc = "returned"
    /\ rpc \in {"exited", "panicked"}
    /\ mpc' = IF rpc = "exited" THEN "exited" ELSE "panicked"
    /\ UNCHANGED <<paths, responded, file_idx, text, words, word_idx, next_id, sent, message_chan,
                   rpc, last_call, failed, channel_vars, indexer_vars>>

\* the exit status of the process once main is over: main prints the error of
\* spawn_server and returns, or returns at its end (status 0); an unwrap that
\* panics on the main thread ends the process with status 101
ExitStatus ==
    IF mpc \in {"spawn_failed", "init_failed", "exited"} THEN Some(0)
    ELSE IF mpc = "panicked" THEN Some(101)
    ELSE None

(***************************************************************************)
(* Indexer::index, one action per stretch between two blocking receives.   *)
(***************************************************************************)
\* a startup that emits the documents before the metaData vertex
IndexerStartDocumentsFirst ==
    /\ ipc = "start"
    /\ idx' = emit_metadata_and_project_vertex(
                  emit_documents(idx, [i \in 1..Len(paths) |-> FromFilePath(paths[i])]),
                  FromFilePath(Root))
    /\ ipc' = "defs"
    /\ UNCHANGED <<paths, responded, crawler_vars, channel_vars, def_read, ref_read, flush_signal>>

\* emit_metadata_and_project_vertex, emit_documents
IndexerStart ==
    /\ ipc = "start"
    /\ idx' = emit_documents(emit_metadata_and_project_vertex(idx, FromFilePath(Root)),
                             [i \in 1..Len(paths) |-> FromFilePath(paths[i])])
    /\ ipc' = "defs"
    /\ UNCHANGED <<paths, responded, crawler_vars, channel_vars, def_read, ref_read, flush_signal>>

\* emit_defs_and_refs, first loop: one definition received
IndexDefinition ==
    /\ ipc = "defs"
    /\ def_read < Len(def_sent)
    /\ LET S == index_definition(idx, def_sent[def_read + 1])
       IN  /\ idx' = S
           /\ ipc' = IF S.panicked THEN "panicked" ELSE ipc
    /\ def_read' = def_read + 1
    /\ UNCHANGED <<paths, responded, crawler_vars, channel_vars, ref_read, flush_signal>>

\* a first loop that ends as soon as the channel is empty, closed or not
DefinitionsDrainedEarly ==
    /\ ipc = "defs"
    /\ def_read = Len(def_sent)
    /\ ipc' = "refs"
    /\ UNCHANGED <<paths, responded, crawler_vars, channel_vars, def_read, ref_read, idx, flush_signal>>

\* the definition channel is drained and closed: the first loop ends
DefinitionsDrained ==
    /\ ipc = "defs"
    /\ def_read = Len(def_sent)
    /\ ~def_tx
    /\ ipc' = "refs"
    /\ UNCHANGED <<paths, responded, crawler_vars, channel_vars, def_read, ref_read, idx, flush_signal>>

\* emit_defs_and_refs, second loop: one reference received
IndexReference ==
    /\ ipc = "refs"
    /\ ref_read < Len(ref_sent)
    /\ LET S == index_reference(idx, ref_sent[ref_read + 1])
       IN  /\ idx' = S
           /\ ipc' = IF S.panicked THEN "panicked" ELSE ipc
    /\ ref_read' = ref_read + 1
    /\ UNCHANGED <<paths, responded, crawler_vars, channel_vars, def_read, flush_signal>>

DocumentIds(S) == {S.cache.documents[f].id : f \in DOMAIN S.cache.documents}

\* link_reference_results_to_ranges, emit_contains, emitter.end(): the indexers
\* that may result.  The HashMaps of the cache (std RandomState) hand out
\* their entries in any order.
FinalIndexers(S) ==
    {EmitterEnd(emit_contains(link_items_to_definitions(S, def_order, bucket_order),
                              doc_order)) :
        def_order \in Perms(DOMAIN S.cache.def_infos),
        bucket_order \in Perms(DocumentIds(S)),
        doc_order \in Perms(DOMAIN S.cache.documents)}

\* the reference channel is drained and closed: the finalization
Finalize ==
    /\ ipc = "refs"
    /\ ref_read = Len(ref_sent)
    /\ ~ref_tx
    /\ \E S \in FinalIndexers(idx) : idx' = S
    /\ flush_signal' = TRUE
    /\ ipc' = "done"
    /\ UNCHANGED <<paths, responded, crawler_vars, channel_vars, def_read, ref_read>>

(***************************************************************************)
(* The whole pipeline.                                                     *)
(***************************************************************************)
Next ==
    \/ SpawnServer
    \/ ServerClosesStdout
    \/ ReaderForward
    \/ ReaderPanic
    \/ AwaitInitialize
    \/ TraverseStart
    \/ OpenFile
    \/ NextWord
    \/ AwaitDefinition
    \/ CloseChannels
    \/ JoinIndexer
    \/ RecvFlush
    \/ JoinReader
    \/ IndexerStart
    \/ IndexDefinition
    \/ DefinitionsDrained
    \/ IndexReference
    \/ Finalize

Spec == Init /\ [][Next]_vars

(***************************************************************************)
(* The pipeline with a server that answers.  The threads are scheduled:    *)
(* a step the main thread or the indexer thread is ready to take is taken  *)
(* in the end (weak fairness on the steps of each thread).  The server     *)
(* writes well-formed messages only, keeps its stdout open, and does not   *)
(* withhold the response to a request for ever (strong fairness on the     *)
(* delivery of a response).                                                *)
(***************************************************************************)
\* the steps of the main thread, the wait for a definition response aside
MainStep ==
    \/ SpawnServer
    \/ AwaitInitialize
    \/ TraverseStart
    \/ OpenFile
    \/ NextWord
    \/ CloseChannels
    \/ JoinIndexer
    \/ RecvFlush
    \/ JoinReader

\* recv() in await_response has something to return: a frame, or the
\* disconnection
AwaitDefinitionReady ==
    /\ mpc = "await_def"
    /\ message_chan # <<>> \/ RecvDisconnected

\* the steps of the indexer thread between its loops
IndexerStep ==
    \/ IndexerStart
    \/ DefinitionsDrained
    \/ IndexReference

\* the first loop has a definition to take from its channel
IndexDefinitionReady == ipc = "defs" /\ def_read < Len(def_sent)

\* the second loop has ended: its channel is drained and closed
FinalizeReady == ipc = "refs" /\ ref_read = Len(ref_sent) /\ ~ref_tx

\* the reader forwards something other than an empty body, or ends its loop
ReaderForwardsMessage ==
    /\ ReaderForward
    /\ message_chan' # message_chan => message_chan'[Len(message_chan')].kind # "empty"

\* the reader forwards a response
ServerAnswers ==
    /\ ReaderForward
    /\ message_chan' # message_chan
    /\ message_chan'[Len(message_chan')].kind \in {"success", "error"}

NextAnswering ==
    \/ SpawnServer
    \/ ReaderForwardsMessage
    \/ AwaitInitialize
    \/ TraverseStart
    \/ OpenFile
    \/ NextWord
    \/ AwaitDefinition
    \/ CloseChannels
    \/ JoinIndexer
    \/ RecvFlush
    \/ JoinReader
    \/ IndexerStart
    \/ IndexDefinition
    \/ DefinitionsDrained
    \/ IndexReference
    \/ Finalize

\* The weak fairness of AwaitDefinition, IndexDefinition and Finalize is
\* written out, []<>(~ENABLED <<A>>_vars) \/ []<><<A>>_vars, with the guard of
\* the action for ENABLED <<A>>_vars: each of them changes a variable whenever
\* its guard holds.
SpecAnswering ==
    /\ Init
    /\ [][NextAnswering]_vars
    /\ WF_vars(MainStep)
    /\ []<>(~AwaitDefinitionReady) \/ []<><<AwaitDefinition>>_vars
    /\ WF_vars(IndexerStep)
    /\ []<>(~IndexDefinitionReady) \/ []<><<IndexDefinition>>_vars
    /\ []<>(~FinalizeReady) \/ []<><<Finalize>>_vars
    /\ SF_vars(ServerAnswers)

(***************************************************************************)
(* The pipeline with a server that sends exactly one response per request, *)
(* in request order, and any number of notifications and requests of its   *)
(* own.                                                                    *)
(***************************************************************************)
NextInOrder ==
    \/ SpawnServer
    \/ ReaderForwardInOrder
    \/ AwaitInitialize
    \/ TraverseStart
    \/ OpenFile
    \/ NextWord
    \/ AwaitDefinition
    \/ CloseChannels
    \/ JoinIndexer
    \/ RecvFlush
    \/ JoinReader
    \/ IndexerStart
    \/ IndexDefinition
    \/ DefinitionsDrained
    \/ IndexReference
    \/ Finalize

SpecInOrder == Init /\ [][NextInOrder]_vars

(***************************************************************************)
(* Indexer::index with any sender on its two channels.                     *)
(***************************************************************************)
R1 == LspRange(Position(0, 0), Position(0, 1))
\* starts where R1 starts, ends later
R1w == LspRange(Position(0, 0), Position(0, 2))

AnyLocations ==
    {Location(FromFilePath(F1), R1), Location(FromFilePath(F1), R1w),
     Location(FromFilePath(F2), R1), Location(FromFilePath(Ext), R1)}

AnyDefinitions ==
    {Definition(l, <<"a">>, c) : l \in AnyLocations, c \in {None, Some("doc")}}

AnyReferences ==
    {Reference(l, <<"a">>, Definition(d, <<"a">>, None)) : l \in AnyLocations, d \in AnyLocations}

InitIndexer ==
    /\ paths = <<F1, F2>>
    /\ text = <<>>
    /\ mpc = "external"
    /\ rpc = "unspawned"
    /\ InitCommon

Spawn ==
    /\ ipc = "unspawned"
    /\ ipc' = "start"
    /\ UNCHANGED <<paths, responded, crawler_vars, channel_vars, def_read, ref_read, idx, flush_signal>>

SendDefinition ==
    /\ def_tx
    /\ Len(def_sent) + Len(ref_sent) < MaxEvents
    /\ \E d \in AnyDefinitions : def_sent' = Append(def_sent, d)
    /\ UNCHANGED <<paths, responded, crawler_vars, ref_sent, def_tx, ref_tx, indexer_vars>>

SendReference ==
    /\ ref_tx
    /\ Len(def_sent) + Len(ref_sent) < MaxEvents
    /\ \E r \in AnyReferences : ref_sent' = Append(ref_sent, r)
    /\ UNCHANGED <<paths, responded, crawler_vars, def_sent, def_tx, ref_tx, indexer_vars>>

DropDefTx ==
    /\ def_tx
    /\ def_tx' = FALSE
    /\ UNCHANGED <<paths, responded, crawler_vars, def_sent, ref_sent, ref_tx, indexer_vars>>

DropRefTx ==
    /\ ref_tx
    /\ ref_tx' = FALSE
    /\ UNCHANGED <<paths, responded, crawler_vars, def_sent, ref_sent, def_tx, indexer_vars>>

NextIndexer ==
    \/ Spawn
    \/ SendDefinition
    \/ SendReference
    \/ DropDefTx
    \/ DropRefTx
    \/ IndexerStart
    \/ IndexDefinition
    \/ DefinitionsDrained
    \/ IndexReference
    \/ Finalize

SpecIndexer == InitIndexer /\ [][NextIndexer]_vars

(***************************************************************************)
(* get_words on any text.                                                  *)
(***************************************************************************)
\* a word character, a two-byte word character, the apostrophe, white space,
\* punctuation, the line break
Alphabet == {"a", "E", "'", " ", ".", "\n"}

Texts == UNION {[1..n -> Alphabet] : n \in 0..MaxLen}

InitWords ==
    /\ paths = <<>>
    /\ text \in Texts
    /\ mpc = "tokenize"
    /\ rpc = "unspawned"
    /\ InitCommon

Tokenize ==
    /\ mpc = "tokenize"
    /\ words' = get_words(text)
    /\ mpc' = "tokenized"
    /\ UNCHANGED <<paths, responded, file_idx, text, word_idx, next_id, sent, message_chan, rpc,
                   last_call, failed, channel_vars, indexer_vars>>

NextWords == Tokenize

SpecWords == InitWords /\ [][NextWords]_vars

(***************************************************************************)
(* Properties.                                                             *)
(***************************************************************************)
\* the output stream so far
Out == idx.emitter.out

\* the positions of the output that hold a vertex with this id
VertexAt(id) == {j \in DOMAIN Out : Out[j].type = "vertex" /\ Out[j].id = id}

IsVertex(id, label) == \E j \in VertexAt(id) : Out[j].label = label

\* the positions of the edges with this label that leave outV
EdgesFrom(label, outV) ==
    {i \in DOMAIN Out : Out[i].type = "edge" /\ Out[i].label = label /\ Out[i].outV = outV}

\* the ids an edge mentions: outV, inV or the members of inVs, document
MentionedIds(e) ==
    {e.outV}
        \cup (IF e.label \in {"item", "contains"} THEN SeqToSet(e.inVs) ELSE {e.inV})
        \cup (IF e.label = "item" THEN {e.document} ELSE {})

\* C1: every id an emitted edge mentions (outV, inV, a member of inVs,
\* document) is the id of a vertex emitted strictly earlier in the stream.
C1_EdgesMentionEarlierVertices ==
    \A i \in DOMAIN Out :
        Out[i].type = "edge" =>
            \A v \in MentionedIds(Out[i]) : \E j \in VertexAt(v) : j < i

\* a finished dump that holds a hover edge, a `references` item edge, a next
\* edge from a range that was found in the cache, and both kinds of contains
C1_Witness ==
    /\ ipc = "done"
    /\ \E i \in DOMAIN Out : Out[i].label = "textDocument/hover"
    /\ \E i \in DOMAIN Out : Out[i].label = "item" /\ Out[i].property = "references"
    /\ \E i \in DOMAIN Out : Out[i].label = "contains" /\ Out[i].outV # idx.project_id
    /\ \E i \in DOMAIN Out : Out[i].label = "contains" /\ Out[i].outV = idx.project_id
    /\ \E k \in 1..Len(ref_sent) : \E j \in 1..Len(def_sent) :
           ref_sent[k].location = def_sent[j].location

\* the references and definitions the indexer has received
DefsRead == SubSeq(def_sent, 1, def_read)

\* the Range vertex id the cache holds for a location, 0 if none
RangeIdOf(loc) ==
    LET got == get_range_id(idx.cache, loc.file_path, loc.range)
    IN  IF IsSome(got) THEN Unwrap(got) ELSE NoId

\* C2: the indexer receives no Reference before the definition channel is
\* closed and every Definition sent was received; so when a Reference is
\* processed, a Definition the crawler sent for its target location is in the
\* cache already and the reference is linked to that definition's result set.
C2_DefinitionsBeforeReferences ==
    (ref_read > 0 \/ ipc \in {"refs", "done"}) =>
        /\ ~def_tx
        /\ def_read = Len(def_sent)
        /\ \A i \in 1..Len(def_sent) :
               LocationMapHas(idx.cache.def_infos, def_sent[i].location)
        /\ \A k \in 1..ref_read :
               (\E i \in 1..Len(def_sent) : def_sent[i].location = ref_sent[k].def.location)
               => \E e \in EdgesFrom("next", RangeIdOf(ref_sent[k].location)) :
                      Out[e].inV =
                        Unwrap(get_definition_info(idx.cache, ref_sent[k].def.location)).result_set_id

\* in F1 the reference (token a, line 0) was discovered before the definition
\* it points to (token b, line 1), and the indexer has processed it
C2_Witness ==
    /\ paths = <<F1>>
    /\ ref_read = 1
    /\ Len(def_sent) = 1
    /\ ref_sent[1].def.location = def_sent[1].location
    /\ ref_sent[1].location.range.start.line < def_sent[1].location.range.start.line

\* C3: await_response returns only on a success or error response whose id
\* is the id of the pending request.
C3_ReturnsOnlyMatchingId ==
    IsSome(last_call) => Unwrap(last_call).frame_id = Unwrap(last_call).request_id

\* the Range vertices the indexer emitted for this location
RangesEmittedFor(loc) ==
    {i \in DOMAIN idx.range_log : idx.range_log[i].location = loc}

\* C4: a Reference whose target Definition is not in the cache is dropped:
\* no Range vertex is emitted for it and the cache holds no range for it.
\* (In the pipeline every event has a location of its own, and def_infos no
\* longer changes once references are processed.)
C4_ForeignReferenceContributesNothing ==
    \A k \in 1..ref_read :
        ~LocationMapHas(idx.cache.def_infos, ref_sent[k].def.location) =>
            /\ RangesEmittedFor(ref_sent[k].location) = {}
            /\ RangeIdOf(ref_sent[k].location) = NoId

\* C5: every Range vertex emitted for a reference has exactly one next edge
\* leaving it, and that edge targets a ResultSet vertex.
C5_ReferenceRangeHasOneNext ==
    \A i \in DOMAIN idx.range_log :
        idx.range_log[i].for = "reference" =>
            /\ Cardinality(EdgesFrom("next", idx.range_log[i].id)) = 1
            /\ \A e \in EdgesFrom("next", idx.range_log[i].id) :
                   IsVertex(Out[e].inV, "resultSet")

\* the Range vertices emitted for definitions, in order
DefinitionRanges == SelectSeq(idx.range_log, LAMBDA e : e.for = "definition")

\* exactly one edge with this label leaves outV, and it ends in a vertex of kind
OneEdge(label, outV, kind) ==
    /\ Cardinality(EdgesFrom(label, outV)) = 1
    /\ \A e \in EdgesFrom(label, outV) : IsVertex(Out[e].inV, kind)

TargetOf(label, outV) == Out[CHOOSE e \in EdgesFrom(label, outV) : TRUE].inV

\* exactly one item edge with this property leaves outV: it lists the range
\* alone and is scoped to the document
OneItem(outV, property, range_id, document_id) ==
    /\ Cardinality(EdgesFrom("item", outV)
                     \cap {i \in DOMAIN Out : Out[i].property = property}) = 1
    /\ \A e \in EdgesFrom("item", outV) :
           Out[e].property = property =>
               Out[e].inVs = <<range_id>> /\ Out[e].document = document_id

CountVertices(label) ==
    Cardinality({j \in DOMAIN Out : Out[j].type = "vertex" /\ Out[j].label = label})

\* the star of vertices and edges around the result set of one definition
DefinitionStar(def, range_id) ==
    /\ OneEdge("next", range_id, "resultSet")
    /\ LET rs == TargetOf("next", range_id)
       IN  /\ OneEdge("textDocument/definition", rs, "definitionResult")
           /\ OneItem(TargetOf("textDocument/definition", rs), "", range_id,
                      idx.cache.documents[def.location.file_path].id)
           /\ OneEdge("moniker", rs, "moniker")
           /\ OneEdge("textDocument/references", rs, "referenceResult")
           /\ OneItem(TargetOf("textDocument/references", rs), "definitions", range_id,
                      idx.cache.documents[def.location.file_path].id)
           /\ IF IsSome(def.comment)
              THEN OneEdge("textDocument/hover", rs, "hoverResult")
              ELSE EdgesFrom("textDocument/hover", rs) = {}

\* the definitions that were indexed: those received whose file is a cached
\* document (index_definition returns early on the others)
IndexedDefinitions ==
    SelectSeq(DefsRead, LAMBDA d : d.location.file_path \in DOMAIN idx.cache.documents)

\* no two definitions received share a location and no reference received
\* lies at the location of a definition, as it is with the events of the
\* crawler (one event per identifier, identifiers do not overlap)
EventsHaveOwnLocations ==
    /\ \A i, j \in 1..def_read : i # j => def_sent[i].location # def_sent[j].location
    /\ \A i \in 1..def_read : \A k \in 1..ref_read :
           def_sent[i].location # ref_sent[k].location

\* C6: in a completed run every Definition indexed has one ResultSet, one
\* DefinitionResult, one ReferenceResult and one Moniker of its own, and a
\* HoverResult iff it carries a comment, connected by next, definition, item,
\* moniker, references and (iff hover) hover edges from its ResultSet.  The
\* run is one in which every definition has a location of its own, as every
\* run of the pipeline is (C6_PipelineEventsHaveOwnLocations).
C6_OneStarPerDefinition ==
    (ipc = "done" /\ EventsHaveOwnLocations) =>
        /\ Len(DefinitionRanges) = Len(IndexedDefinitions)
        /\ \A k \in 1..Len(IndexedDefinitions) :
               /\ DefinitionRanges[k].location = IndexedDefinitions[k].location
               /\ DefinitionStar(IndexedDefinitions[k], DefinitionRanges[k].id)
        /\ \A k, m \in 1..Len(IndexedDefinitions) :
               k # m => TargetOf("next", DefinitionRanges[k].id)
                            # TargetOf("next", DefinitionRanges[m].id)
        /\ \A label \in {"resultSet", "definitionResult", "referenceResult", "moniker"} :
               CountVertices(label) = Len(IndexedDefinitions)
        /\ CountVertices("hoverResult")
               = Cardinality({k \in 1..Len(IndexedDefinitions) :
                                 IsSome(IndexedDefinitions[k].comment)})

\* under Spec: the events of the crawler have locations of their own
C6_PipelineEventsHaveOwnLocations == ipc # "unspawned" /\ ipc # "start" => EventsHaveOwnLocations

\* a completed run with two definitions, one with a comment and one without,
\* and a reference linked to one of them
C6_Witness ==
    /\ ipc = "done"
    /\ EventsHaveOwnLocations
    /\ Len(IndexedDefinitions) = 2
    /\ IsSome(IndexedDefinitions[1].comment)
    /\ ~IsSome(IndexedDefinitions[2].comment)
    /\ \E i \in DOMAIN Out : Out[i].label = "item" /\ Out[i].property = "references"

\* the document a Range vertex lies in, by the file it was emitted for
DocumentsOfRange(range_id) ==
    {idx.cache.documents[idx.range_log[i].location.file_path].id :
        i \in {j \in DOMAIN idx.range_log : idx.range_log[j].id = range_id}}

\* C7: the ranges in a DefinitionInfo's reference_range_ids bucket lie in the
\* document whose id keys the bucket (the document of the referencing file).
C7_BucketKeyedByReferenceDocument ==
    \A loc \in DOMAIN idx.cache.def_infos :
        LET buckets == idx.cache.def_infos[loc].reference_range_ids
        IN  \A b \in DOMAIN buckets :
                \A i \in 1..Len(buckets[b]) : DocumentsOfRange(buckets[b][i]) = {b}

\* at most one Range vertex per (file, range), and the cache knows its id
OneRangePerLocation ==
    /\ \A i, j \in DOMAIN idx.range_log :
           i # j => idx.range_log[i].location # idx.range_log[j].location
    /\ \A i \in DOMAIN idx.range_log :
           RangeIdOf(idx.range_log[i].location) = idx.range_log[i].id

\* C8 as stated: whatever events the indexer is given, a Range vertex is
\* emitted at most once per (file, range) and get_range_id returns its id.
C8_OneRangePerLocationAnyEvents == OneRangePerLocation

\* no two definitions received share a location, and every reference
\* received lies in a cached document
DefinitionsApartReferencesCached ==
    /\ \A i, j \in 1..def_read : i # j => def_sent[i].location # def_sent[j].location
    /\ \A k \in 1..ref_read : ref_sent[k].location.file_path \in DOMAIN idx.cache.documents

\* C8, amended: for events in which no two Definitions share a location and
\* every Reference lies in a cached document, a Range vertex is emitted at
\* most once per (file, range) and get_range_id returns its id.
C8_OneRangePerLocation == DefinitionsApartReferencesCached => OneRangePerLocation

\* two references at one location, and a reference at a definition's
\* location, have been indexed and share one Range vertex
C8_Witness ==
    /\ DefinitionsApartReferencesCached
    /\ ref_read = 2
    /\ def_read = 1
    /\ ref_sent[1].location = ref_sent[2].location
    /\ ref_sent[1].location = def_sent[1].location
    /\ RangeIdOf(def_sent[1].location) # NoId

\* two received references lie in the same cached document
SameCachedFile(k1, k2) ==
    /\ ref_sent[k1].location.file_path = ref_sent[k2].location.file_path
    /\ ref_sent[k1].location.file_path \in DOMAIN idx.cache.documents

ResolvedLocation(answer) ==
    IF answer.kind = "scalar" THEN answer.locs
    ELSE IF answer.kind = "array" /\ Len(answer.locs) >= 1 THEN <<answer.locs[1]>>
    ELSE <<>>

\* C10: an answer that resolves to def_loc (a scalar, or the first entry of
\* an array) makes the crawler send exactly one event: a Definition when
\* def_loc starts at the queried position in the current file, a Reference
\* carrying a Definition for def_loc otherwise; null, an empty array and a
\* LocationLink answer make it send nothing.
C10_Classification ==
    (IsSome(last_call) /\ Unwrap(last_call).kind = "success" /\ Unwrap(last_call).file # Root)
    => LET c == Unwrap(last_call)
           resolved == ResolvedLocation(Unwrap(c.result))
           uri == <<"file:">> \o c.file
       IN  IF resolved = <<>>
           THEN Len(def_sent) = c.defs_before /\ Len(ref_sent) = c.refs_before
           ELSE IF resolved[1].range.start = c.range.start /\ resolved[1].file_path = uri
           THEN /\ def_sent = Append(SubSeq(def_sent, 1, c.defs_before),
                        [location |-> [file_path |-> resolved[1].file_path, range |-> c.range],
                         node_name |-> c.word, comment |-> None])
                /\ Len(ref_sent) = c.refs_before
           ELSE /\ ref_sent = Append(SubSeq(ref_sent, 1, c.refs_before),
                        [location |-> [file_path |-> uri, range |-> c.range],
                         node_name |-> c.word,
                         def |-> [location |-> resolved[1], node_name |-> c.word,
                                  comment |-> None]])
                /\ Len(def_sent) = c.defs_before

\* an array of two locations was answered for the second identifier of F1
\* and its first entry made a Definition, after a Reference for the first
C10_Witness ==
    /\ IsSome(last_call)
    /\ Unwrap(last_call).kind = "success"
    /\ Unwrap(last_call).file = F1
    /\ Unwrap(Unwrap(last_call).result).kind = "array"
    /\ Len(Unwrap(Unwrap(last_call).result).locs) = 2
    /\ Len(def_sent) = Unwrap(last_call).defs_before + 1
    /\ Len(ref_sent) = 1

\* the identifiers of file p that match a keyword
KeywordTokens(p) == {w \in SeqToSet(get_words(FileText(p))) : w.word \in Keywords}

\* C11: for an identifier that matches a keyword of the language config, no
\* textDocument/definition request is written to the server for its position
\* and no Definition or Reference event is sent for it.
C11_KeywordsNeverQueried ==
    \A i \in DOMAIN paths :
        \A w \in KeywordTokens(paths[i]) :
            LET here == Location(FromFilePath(paths[i]), w.range)
            IN  /\ \A k \in DOMAIN sent :
                       ~(/\ sent[k].method = "textDocument/definition"
                         /\ sent[k].uri = here.file_path
                         /\ sent[k].position = w.range.start)
                /\ \A k \in DOMAIN def_sent :
                       def_sent[k].location # here /\ def_sent[k].node_name # w.word
                /\ \A k \in DOMAIN ref_sent :
                       ref_sent[k].location # here /\ ref_sent[k].node_name # w.word

\* the walk of F1, which starts with the keyword fn, is over: its two other
\* identifiers were queried and each made an event
C11_Witness ==
    /\ paths = <<F1>>
    /\ KeywordTokens(F1) # {}
    /\ file_idx = 2
    /\ Len(def_sent) + Len(ref_sent) = 2

\* the locations of the events the crawler sent
EventLocations ==
    {def_sent[k].location : k \in DOMAIN def_sent}
        \cup {ref_sent[k].location : k \in DOMAIN ref_sent}

\* C12: a JSON-RPC error response to one goto-definition request does not
\* end the crawl: the crawler goes on with the next identifier, the events
\* sent for the other identifiers are what they were, the erroring identifier
\* gets no event and no Range vertex, and every Range vertex of the output
\* belongs to an identifier that did get an event.
C12_ErrorDropsOnlyItsIdentifier ==
    /\ (IsSome(last_call) /\ Unwrap(last_call).kind = "error"
            /\ Unwrap(last_call).file # Root)
        => /\ mpc = "word"
           /\ Len(def_sent) = Unwrap(last_call).defs_before
           /\ Len(ref_sent) = Unwrap(last_call).refs_before
    /\ \A f \in failed :
           f.cause = "error" =>
               f.location \notin EventLocations /\ RangesEmittedFor(f.location) = {}
    /\ \A i \in DOMAIN idx.range_log : idx.range_log[i].location \in EventLocations

\* the run over F2 and F3 is complete: one query was answered with an error,
\* the two other identifiers made a definition and a reference linked to it
C12_Witness ==
    /\ mpc = "exited"
    /\ ipc = "done"
    /\ \E f \in failed : f.cause = "error"
    /\ Len(def_sent) = 1
    /\ Len(ref_sent) = 1
    /\ \E i \in DOMAIN Out : Out[i].label = "item" /\ Out[i].property = "references"

\* C13: the completed output for an empty project (no file of the language)
\* is exactly the metaData vertex; in particular it holds no contains edge
\* from the project with an empty inVs list.
C13_EmptyProjectOnlyMetaData ==
    (ipc = "done" /\ paths = <<>>) =>
        /\ Len(Out) = 1
        /\ Out[1].type = "vertex" /\ Out[1].label = "metaData"
        /\ \A i \in DOMAIN Out : ~(Out[i].label = "contains" /\ Out[i].inVs = <<>>)

\* the ids of the emitted vertices with this label
VertexIds(label) ==
    {Out[j].id : j \in {i \in DOMAIN Out : Out[i].type = "vertex" /\ Out[i].label = label}}

\* where an id occurs in the inVs of a contains edge: <<edge position, index>>
ContainsSlots(id) ==
    {s \in UNION {{<<e, k>> : k \in DOMAIN Out[e].inVs} :
                     e \in {i \in DOMAIN Out : Out[i].label = "contains"}} :
        Out[s[1]].inVs[s[2]] = id}

\* C14: in a completed run every Document vertex occurs exactly once in the
\* contains edges, in the project's; every Range vertex occurs exactly once in
\* the contains edges, in the edge of the document the range lies in.
C14_ContainsTree ==
    ipc = "done" =>
        /\ \A d \in VertexIds("document") :
               /\ Cardinality(ContainsSlots(d)) = 1
               /\ \A s \in ContainsSlots(d) : Out[s[1]].outV = idx.project_id
        /\ \A r \in VertexIds("range") :
               /\ Cardinality(ContainsSlots(r)) = 1
               /\ \A s \in ContainsSlots(r) : DocumentsOfRange(r) = {Out[s[1]].outV}

\* every reference received has its definition in the cache
ReferencesResolved ==
    \A k \in 1..ref_read : LocationMapHas(idx.cache.def_infos, ref_sent[k].def.location)

\* the tree of C14 in the runs in which every reference is resolved
C14_ContainsTreeWhenResolved == ReferencesResolved => C14_ContainsTree

\* C15: in a completed run each document has exactly one contains edge, with
\* inVs = definition_range_ids followed by reference_range_ids, if that list
\* is not empty, and no contains edge if it is.
C15_DefinitionsThenReferences ==
    ipc = "done" =>
        \A f \in DOMAIN idx.cache.documents :
            LET d == idx.cache.documents[f]
                inVs == d.definition_range_ids \o d.reference_range_ids
            IN  IF inVs = <<>> THEN EdgesFrom("contains", d.id) = {}
                ELSE /\ Cardinality(EdgesFrom("contains", d.id)) = 1
                     /\ \A e \in EdgesFrom("contains", d.id) : Out[e].inVs = inVs

\* the ids of the Range vertices, in the order of the output
RangeIdsInOutput ==
    LET rs == SelectSeq(Out, LAMBDA e : e.type = "vertex" /\ e.label = "range")
    IN  [i \in DOMAIN rs |-> rs[i].id]

C17_FinalizationDetermined ==
    (ipc = "refs" /\ ref_read = Len(ref_sent) /\ ~ref_tx) =>
        Cardinality({S.emitter.out : S \in FinalIndexers(idx)}) = 1

\* C18: a fatal error on the stream of the server ends the run.  The half of
\* the claim about the crawler: it never goes on to the next identifier after
\* a query that failed because the reader thread had died and the frame
\* channel was disconnected.
C18_StreamErrorEndsTheCrawl ==
    \A f \in failed : f.cause # "disconnected"

\* C19: the process exits with status 0 when the run succeeds and with a
\* non-zero status when it ends on a fatal error: the server could not be
\* spawned, `initialize` failed, or a thread panicked.
C19_ExitStatus ==
    /\ mpc = "exited" => ExitStatus = Some(0)
    /\ mpc \in {"spawn_failed", "init_failed", "panicked"} =>
           IsSome(ExitStatus) /\ Unwrap(ExitStatus) # 0

\* position p of the text is part of an identifier: a word character, or an
\* apostrophe between two word characters
InToken(p) ==
    \/ IsWord(text[p])
    \/ /\ text[p] = "'"
       /\ p > 1
       /\ p < Len(text)
       /\ IsWord(text[p - 1])
       /\ IsWord(text[p + 1])

\* the maximal stretches <<first, last>> of such positions
TokenSpans ==
    {s \in (DOMAIN text) \X (DOMAIN text) :
        /\ s[1] <= s[2]
        /\ \A p \in s[1]..s[2] : InToken(p)
        /\ s[1] = 1 \/ ~InToken(s[1] - 1)
        /\ s[2] = Len(text) \/ ~InToken(s[2] + 1)}

\* the 0-based index of the line of position p
LineIndex(p) == Cardinality({q \in 1..(p - 1) : text[q] = "\n"})

\* the first position of the line of position p
LineStart(p) ==
    LET breaks == {q \in 1..(p - 1) : text[q] = "\n"}
    IN  IF breaks = {} THEN 1 ELSE 1 + CHOOSE q \in breaks : \A r \in breaks : r <= q

RECURSIVE BytesOf(_)
BytesOf(s) == IF s = <<>> THEN 0 ELSE ByteLen(Head(s)) + BytesOf(Tail(s))

\* the offset of position p in its line
Column(p) == BytesOf(SubSeq(text, LineStart(p), p - 1))

\* the (word, range) of a stretch
TokenOf(s) ==
    [word  |-> SubSeq(text, s[1], s[2]),
     range |-> LspRange(Position(LineIndex(s[1]), Column(s[1])),
                        Position(LineIndex(s[1]), Column(s[2]) + ByteLen(text[s[2]])))]

\* "let value = a.b.c();"
ExampleText ==
    <<"l", "e", "t", " ", "v", "a", "l", "u", "e", " ", "=", " ",
      "a", ".", "b", ".", "c", "(", ")", ";">>

ExampleWord(w, first, past) ==
    [word |-> w, range |-> LspRange(Position(0, first), Position(0, past))]

ExampleWords ==
    << ExampleWord(<<"l", "e", "t">>, 0, 3),
       ExampleWord(<<"v", "a", "l", "u", "e">>, 4, 9),
       ExampleWord(<<"a">>, 12, 13),
       ExampleWord(<<"b">>, 14, 15),
       ExampleWord(<<"c">>, 16, 17) >>

\* C20: get_words returns exactly the maximal matches of \w+(?:'\w+)* of
\* each line (one token per maximal stretch of word characters and
\* apostrophes between word characters), in order of line and then of
\* column, each with the 0-based index of its line, the offset of its first
\* character in the line and the offset just past its last; no white space
\* or punctuation is in a token; "let value = a.b.c();" gives let, value, a,
\* b, c.
C20_MaximalMatches ==
    mpc = "tokenized" =>
        /\ Len(words) = Cardinality(TokenSpans)
        /\ \A s \in TokenSpans : \E i \in DOMAIN words : words[i] = TokenOf(s)
        /\ \A i, j \in DOMAIN words :
               i < j =>
                   \/ words[i].range.start.line < words[j].range.start.line
                   \/ /\ words[i].range.start.line = words[j].range.start.line
                      /\ words[i].range.end.character <= words[j].range.start.character
        /\ \A i \in DOMAIN words :
               \A k \in DOMAIN words[i].word : words[i].word[k] \in WordChars \cup {"'"}
        /\ get_words(ExampleText) = ExampleWords

\* a first line with a two-byte letter, an apostrophe and a letter, which is
\* one token of four bytes, and a second line with one letter
C20_Witness ==
    /\ mpc = "tokenized"
    /\ text = <<"E", "'", "a", "\n", "a">>
    /\ Len(words) = 2
    /\ words[1].word = <<"E", "'", "a">>
    /\ words[1].range.end.character = 4
    /\ words[2].range.start.line = 1

\* the positions of the messages with this method in what the client wrote
SentAt(s, method) == {k \in DOMAIN s : s[k].method = method}

\* C21: the first message the client writes is the `initialize` request;
\* `initialized` is written only in the step in which await_response takes
\* the success response to that request from the frame channel; every
\* didOpen notification and definition request comes after `initialized`;
\* when the response taken is an error response, or the frame channel is
\* disconnected, startup fails, and after a failed startup `initialized` is
\* never written.
C21_StartupOrder ==
    [][/\ sent' # <<>> => sent'[1] = Request("initialize", 0, FromFilePath(Root), None)
       /\ SentAt(sent', "initialized") # SentAt(sent, "initialized") =>
              /\ mpc = "await_init"
              /\ message_chan # <<>>
              /\ Head(message_chan) = Frame("success", 0)
              /\ sent' = Append(sent, Notification("initialized", None))
       /\ \A k \in SentAt(sent', "textDocument/didOpen")
                       \cup SentAt(sent', "textDocument/definition") :
              \E j \in SentAt(sent', "initialized") : j < k
       /\ (mpc = "await_init" /\ message_chan # <<>> /\ message_chan' = Tail(message_chan)
              /\ Head(message_chan).kind = "error") => mpc' = "init_failed"
       /\ (mpc = "await_init" /\ mpc' # mpc /\ message_chan = <<>>) => mpc' = "init_failed"
       /\ mpc = "init_failed" => mpc' = "init_failed"
       /\ mpc' = "init_failed" => SentAt(sent', "initialized") = {}
      ]_vars

\* startup succeeded and the crawl of F1 has sent a didOpen and a request
C21_Witness ==
    /\ SentAt(sent, "initialized") # {}
    /\ SentAt(sent, "textDocument/didOpen") # {}
    /\ SentAt(sent, "textDocument/definition") # {}

\* the ids of the Range vertices emitted for the definitions of file f, in
\* the order in which they were emitted
DefinitionRangesOf(f) ==
    LET es == SelectSeq(idx.range_log,
                        LAMBDA e : e.for = "definition" /\ e.location.file_path = f)
    IN  [i \in DOMAIN es |-> es[i].id]

\* the ids of the ranges of the references of file f that were linked to a
\* definition, in the order in which the references were received
ReferenceRangesOf(f) ==
    LET rs == SelectSeq(SubSeq(ref_sent, 1, ref_read),
                        LAMBDA r : /\ r.location.file_path = f
                                   /\ LocationMapHas(idx.cache.def_infos, r.def.location))
    IN  [i \in DOMAIN rs |-> RangeIdOf(rs[i].location)]

\* C22: in every state of a run, for every document, no id is in both
\* definition_range_ids and reference_range_ids, and each list holds the ids
\* in the order of insertion: the definitions' ranges in the order in which
\* the definitions were indexed, the references' ranges in the order in which
\* the references were linked.
C22_RangeListsDisjointInOrder ==
    \A f \in DOMAIN idx.cache.documents :
        LET d == idx.cache.documents[f]
        IN  /\ SeqToSet(d.definition_range_ids) \cap SeqToSet(d.reference_range_ids) = {}
            /\ d.definition_range_ids = DefinitionRangesOf(f)
            /\ d.reference_range_ids = ReferenceRangesOf(f)

\* a completed run in which one document holds two definitions
C22_Witness ==
    /\ \E f \in DOMAIN idx.cache.documents :
           Len(idx.cache.documents[f].definition_range_ids) = 2
    /\ ipc = "done"

\* the requests the client has written
RequestsSent == SelectSeq(sent, LAMBDA m : m.kind = "request")

\* the calls of await_response never overlap: a request is written only when
\* no call is pending, and it is the only thing written until its call returns
CallsDoNotOverlap ==
    /\ Len(RequestsSent') # Len(RequestsSent) =>
           /\ Len(RequestsSent') = Len(RequestsSent) + 1
           /\ mpc \notin {"await_init", "await_def"}
           /\ mpc' \in {"await_init", "await_def"}
    /\ (mpc \in {"await_init", "await_def"} /\ mpc' \in {"await_init", "await_def"})
           => sent' = sent
    /\ \A k \in DOMAIN RequestsSent' : RequestsSent'[k].id = k - 1
    /\ next_id' = Len(RequestsSent')

\* a call of await_response returns to a client that can send again only
\* with the response to its request consumed
ReturnsWithResponseConsumed ==
    (mpc \in {"await_init", "await_def"} /\ mpc' \in {"initialized", "word"}) =>
        /\ IsSome(last_call')
        /\ Unwrap(last_call').frame_id = Unwrap(last_call').request_id

\* C23: at most one request is outstanding: the client writes a request only
\* when no call of await_response is pending, and the call for the request
\* before it returned with the response to that request consumed.
C23_OneRequestOutstanding == [][CallsDoNotOverlap /\ ReturnsWithResponseConsumed]_vars

\* the calls as such are sequential
C23_CallsDoNotOverlap == [][CallsDoNotOverlap]_vars

\* the didOpen notifications the client has written, in order
Opens == SelectSeq(sent, LAMBDA m : m.method = "textDocument/didOpen")

\* the position in sent of the last didOpen before position k, 0 if none
LastOpenBefore(k) ==
    LET before == {j \in SentAt(sent, "textDocument/didOpen") : j < k}
    IN  IF before = {} THEN 0 ELSE CHOOSE j \in before : \A i \in before : i <= j

\* C24: the didOpen notifications written are one per file, for the files of
\* the walk in walk order, and every definition request is for a position in
\* the file of the last didOpen written before it: a file is opened once,
\* before its requests, and all its requests come before the next didOpen.
C24_OpenThenQueryFileByFile ==
    /\ Len(Opens) <= Len(paths)
    /\ \A i \in DOMAIN Opens : Opens[i].uri = FromFilePath(paths[i])
    /\ \A i, j \in DOMAIN Opens : i # j => Opens[i].uri # Opens[j].uri
    /\ \A k \in SentAt(sent, "textDocument/definition") :
           /\ LastOpenBefore(k) # 0
           /\ sent[LastOpenBefore(k)].uri = sent[k].uri

\* both files of the walk F2, F3 were opened and all three identifiers queried
C24_Witness ==
    /\ paths = <<F2, F3>>
    /\ Len(Opens) = 2
    /\ Cardinality(SentAt(sent, "textDocument/definition")) = 3

\* the elements of the finalization: ReferenceResult vertices, the item edges
\* that leave them, the contains edges
IsFinalization(e) ==
    \/ e.label \in {"referenceResult", "textDocument/references", "contains"}
    \/ e.label = "item" /\ e.property \in {"definitions", "references"}

\* the order of the shutdown
ShutdownInOrder ==
    /\ (\E i \in DOMAIN Out : IsFinalization(Out[i])) =>
           /\ ~def_tx /\ ~ref_tx
           /\ def_read = Len(def_sent) /\ ref_read = Len(ref_sent)
           /\ ipc = "done"
    /\ idx.emitter.ended <=> ipc = "done"
    /\ flush_signal <=> idx.emitter.ended
    /\ ipc = "done" => Out[Len(Out)].label = "contains"
    /\ mpc \in {"returned", "exited"} => flush_signal /\ ~def_tx /\ ~ref_tx

\* C25: with a server that answers every request the run terminates, and in
\* order: once the crawl has begun traverse returns in the end; no element of
\* the finalization is emitted before both channels are closed and drained;
\* end() is called with the finalization emitted; traverse returns only with
\* the flush-done signal sent.
C25_TerminatesInOrder ==
    /\ []ShutdownInOrder
    /\ (mpc = "file") ~> (mpc \in {"returned", "exited"})

\* traverse has returned from a run with a definition and a linked reference
C25_Witness ==
    /\ mpc = "returned"
    /\ flush_signal
    /\ \E i \in DOMAIN Out : Out[i].label = "item" /\ Out[i].property = "references"

\* C26: once traverse has returned, and with it the receiving end of the frame
\* channel has been dropped, the reader thread terminates, and the join of
\* main on it returns.
C26_ReaderTerminatesAfterDrop ==
    /\ (mpc = "returned") ~> (rpc = "exited")
    /\ (mpc = "returned") ~> (mpc = "exited")

\* the reader thread ends its loop at a send that fails, and only there
C26_ReaderEndsAtFailedSend ==
    [][rpc' = "exited" /\ rpc # "exited" => ~ReceiverAlive /\ ReaderForward]_vars

\* await_response takes a frame of one of these kinds from the channel
ConsumesFrameOf(kinds) ==
    /\ mpc \in {"await_init", "await_def"}
    /\ message_chan # <<>>
    /\ message_chan' = Tail(message_chan)
    /\ Head(message_chan).kind \in kinds

\* the call goes on waiting: nothing returned, nothing sent, no event
KeepsWaiting ==
    /\ mpc' = mpc
    /\ UNCHANGED <<last_call, failed, sent, next_id, word_idx, def_sent, ref_sent>>

\* C27: a frame that is not a response (a server request, a notification, an
\* empty heartbeat frame) taken while a request is pending is discarded: the
\* call of await_response keeps waiting.
C27_OtherFramesDiscarded ==
    [][ConsumesFrameOf({"request", "notification", "empty"}) => KeepsWaiting]_vars

\* server requests and notifications are discarded
C27_RequestsAndNotificationsDiscarded ==
    [][ConsumesFrameOf({"request", "notification"}) => KeepsWaiting]_vars

\* the startup of Indexer::index is over
StartupDone == ipc \notin {"unspawned", "start"}

\* C28: the startup emissions come before any event is processed: the first
\* element of the output is the metaData vertex, the next ones are one
\* Document vertex per file of the project, in the order of the walk, each
\* cached under its URI with its id; no other Document vertex follows, and no
\* Range, no ResultSet and no edge stands before the last Document vertex.
C28_StartupEmissionsFirst ==
    /\ ~StartupDone => Out = <<>> /\ def_read = 0 /\ ref_read = 0
    /\ StartupDone =>
         /\ Len(Out) >= 1 + Len(paths)
         /\ Out[1].type = "vertex" /\ Out[1].label = "metaData"
         /\ \A i \in 1..Len(paths) :
              /\ Out[1 + i].type = "vertex" /\ Out[1 + i].label = "document"
              /\ Out[1 + i].data = FromFilePath(paths[i])
              /\ get_document_id(idx.cache, FromFilePath(paths[i])) = Some(Out[1 + i].id)
         /\ DOMAIN idx.cache.documents = {FromFilePath(paths[i]) : i \in 1..Len(paths)}
         /\ \A j \in DOMAIN Out :
              /\ j > 1 + Len(paths) => Out[j].label \notin {"metaData", "document"}
              /\ Out[j].type = "edge" \/ Out[j].label \in {"range", "resultSet"}
                    => j > 1 + Len(paths)

\* two documents, and the events of a definition and a reference processed
C28_Witness ==
    /\ StartupDone
    /\ Len(paths) = 2
    /\ def_read > 0 /\ ref_read > 0
    /\ \E j \in DOMAIN Out : Out[j].label = "range"

\* the crawler is blocked on the indexer: indexer_proc.join(), flush_signal.recv()
CrawlerWaitsForIndexer == mpc \in {"join", "flush_wait"} /\ ~flush_signal

\* the indexer is blocked on the crawler: a receive on a channel that is
\* empty and still open
IndexerWaitsForCrawler ==
    \/ ipc = "defs" /\ def_read = Len(def_sent) /\ def_tx
    \/ ipc = "refs" /\ ref_read = Len(ref_sent) /\ ref_tx

\* the indexer thread has a step to take
IndexerCanStep ==
    \/ ipc = "start"
    \/ IndexDefinitionReady
    \/ ipc = "defs" /\ def_read = Len(def_sent) /\ ~def_tx
    \/ ipc = "refs" /\ ref_read < Len(ref_sent)
    \/ FinalizeReady

\* C29: the crawler and the indexer never wait for each other: while the
\* crawler waits for the indexer (join, flush signal) both channels are
\* closed and the indexer has a step to take or is over; and the indexer
\* waits on an empty open channel only while the crawler is not waiting for it.
C29_NoCrawlerIndexerDeadlock ==
    /\ ~(CrawlerWaitsForIndexer /\ IndexerWaitsForCrawler)
    /\ CrawlerWaitsForIndexer =>
         /\ ~def_tx /\ ~ref_tx
         /\ IndexerCanStep \/ ipc \in {"done", "panicked"}
    /\ mpc = "flush_wait" => flush_signal

\* the crawler has sent a definition and a reference and waits in join() while
\* the indexer, still in its first loop, has read no reference
C29_Witness ==
    /\ mpc = "join"
    /\ ipc = "defs"
    /\ Len(def_sent) > 0
    /\ Len(ref_sent) > 0 /\ ref_read = 0

\* the responses in the frame channel
ResponsesQueued ==
    {i \in DOMAIN message_chan : message_chan[i].kind \in {"success", "error"}}

\* the calls of await_response that have returned
CallsReturned == IF mpc \in {"await_init", "await_def"} THEN next_id - 1 ELSE next_id

\* C30: with a server that answers in order, one response per request, the
\* k-th call of await_response consumes the k-th response: the responses
\* consumed so far are as many as the calls that have returned, a response
\* in the channel is the response to the pending request, and the response a
\* call returned on carries the id of the request of that call.
C30_KthCallConsumesKthResponse ==
    /\ responded - Cardinality(ResponsesQueued) = CallsReturned
    /\ \A i \in ResponsesQueued :
         /\ mpc \in {"await_init", "await_def"}
         /\ message_chan[i].id = next_id - 1
    /\ IsSome(last_call) =>
         /\ Unwrap(last_call).kind \in {"success", "error"}
         /\ Unwrap(last_call).frame_id = Unwrap(last_call).request_id

\* a call whose payload is null (it fails to deserialize) has returned on the
\* response to its own request, the third or a later one, after an earlier
\* call ended in a server error
C30_Witness ==
    /\ failed # {}
    /\ IsSome(last_call)
    /\ Unwrap(last_call).request_id >= 2
    /\ Unwrap(last_call).kind = "success"
    /\ IsSome(Unwrap(last_call).result)
    /\ ~deserializes(Unwrap(Unwrap(last_call).result))

\* the URIs of the files of the project
ProjectFiles == {FromFilePath(paths[i]) : i \in 1..Len(paths)}

\* C31: the unchecked lookups of the cache never fail in a run of the
\* pipeline: the indexer never panics; from the startup on `documents` and
\* `ranges` have an entry for every file of the project; every Definition the
\* crawler sent finds both entries of its file when cache_definition is
\* called, and every Reference the crawler sent whose definition is in
\* def_infos finds the definition's document, the DefinitionInfo and its own
\* document when cache_reference is called.
C31_UncheckedLookupsNeverFail ==
    /\ ~idx.panicked /\ ipc # "panicked"
    /\ StartupDone =>
         /\ DOMAIN idx.cache.documents = ProjectFiles
         /\ DOMAIN idx.cache.ranges = ProjectFiles
         /\ \A i \in DOMAIN def_sent : ~cache_definition_panics(idx.cache, def_sent[i])
         /\ \A i \in DOMAIN ref_sent :
              /\ ref_sent[i].location.file_path \in ProjectFiles
              /\ get_definition_info(idx.cache, ref_sent[i].def.location) # None
                    => ~cache_reference_panics(idx.cache, ref_sent[i].def, ref_sent[i])

\* cache_definition and cache_reference have both been called, and a
\* reference to a definition outside the project has been received as well
C31_Witness ==
    /\ ref_read = Len(ref_sent)
    /\ \E l \in DOMAIN idx.cache.def_infos :
         DOMAIN idx.cache.def_infos[l].reference_range_ids # {}
    /\ \E i \in DOMAIN ref_sent : ref_sent[i].def.location.file_path \notin ProjectFiles

=============================================================================
